---- MODULE Spec2Model ----
(***************************************************************************)
(* Model of scripts/gas_calculator.py: the merge of a freshly computed gas *)
(* table into the JSON cache file stableswap_pools_gas_estimates.json, and *)
(* the three commands (stableswap-pools, stableswap-pool,                  *)
(* stableswap-pool-tx) that drive it.                                      *)
(*                                                                         *)
(* Spec      : commands run one after the other, file I/O succeeds.        *)
(* SpecFault : the rewrite of the file (open(..., "w") + json.dump) is     *)
(*             split at its system-call boundaries; it may fail part-way   *)
(*             and another process may read the file meanwhile.            *)
(***************************************************************************)
EXTENDS Integers, Sequences, FiniteSets, TLC

\* ------------------------------------------------------------- bounds ----
NumAddrs == 2      \* pool addresses 1..NumAddrs
MaxCount == 2      \* table-level "count" ranges over 1..MaxCount
MaxBody == 2       \* distinct per-method contents of a table
MaxRegLen == 2     \* pool_count() of a registry is at most this
MaxMerges == 2     \* merges recorded for one address in a row
NumMethods == 2    \* method keys 1..NumMethods of the measured contract
MaxCalls == 2      \* attributable calls in one transaction
MaxTxs == 2        \* transactions in one batch
NumProcs == 2      \* merges that run side by side

Addrs == 1..NumAddrs

\* ------------------------------------------------------ data: tables ----
\* A gas table is a Python dict.  hasCount: the key "count" is present;
\* count: its value; body: which per-method entries it carries (0 = none).
EmptyTable == [hasCount |-> FALSE, count |-> 0, body |-> 0]

\* what _get_gas_table_for_stableswap_pool* can return: {} or a table with
\* a positive transaction count
ComputedTables ==
    {EmptyTable} \cup
    {[hasCount |-> TRUE, count |-> c, body |-> b] : c \in 1..MaxCount, b \in 1..MaxBody}

\* what an entry of an existing cache file can be: a table written earlier,
\* or an entry that lacks the "count" key
StoredTables ==
    (ComputedTables \ {EmptyTable}) \cup
    {[hasCount |-> FALSE, count |-> 0, body |-> 1]}

\* `if decoded_gas_table:` -- a dict is truthy iff it has at least one key
Truthy(t) == t.hasCount \/ t.body # 0

ShouldSave_always(t) == TRUE

\* the guard in front of the merge in both writing commands
ShouldSave(t) == Truthy(t)

\* -------------------------------------------------------- data: file ----
EmptyCosts == [a \in {} |-> EmptyTable]

AbsentFile == [kind |-> "absent", costs |-> EmptyCosts]
GarbageFile == [kind |-> "garbage", costs |-> EmptyCosts]
TruncatedFile == [kind |-> "empty", costs |-> EmptyCosts]
PartialFile == [kind |-> "partial", costs |-> EmptyCosts]
NothingRead == [kind |-> "unread", costs |-> EmptyCosts]

\* json.dump(costs, f, indent=4) run to completion on a freshly opened file
JsonDump(costs) == [kind |-> "json", costs |-> costs]

\* json.load(f): the parsed object, or JSONDecodeError on anything that is
\* not a complete JSON document (zero bytes, a prefix of a document, junk)
JsonLoad(f) ==
    IF f.kind = "json"
    THEN [ok |-> TRUE, costs |-> f.costs]
    ELSE [ok |-> FALSE, costs |-> EmptyCosts]

\* lines 48-56: costs = {} unless the file exists and parses
ReadCosts(f) ==
    IF f.kind = "absent" THEN EmptyCosts
    ELSE IF JsonLoad(f).ok THEN JsonLoad(f).costs
    ELSE EmptyCosts

AllCosts == UNION {[D -> StoredTables] : D \in SUBSET Addrs}

InitialFiles ==
    {AbsentFile, GarbageFile, TruncatedFile} \cup {JsonDump(c) : c \in AllCosts}

\* the entry a reader finds for an address (EmptyTable = no entry)
Entry(f, a) == IF a \in DOMAIN ReadCosts(f) THEN ReadCosts(f)[a] ELSE EmptyTable

\* ------------------------------------------------------- the merge ------
AppendGasTable_ge(f, addr, t) ==
    LET costs == ReadCosts(f) IN
    IF addr \in DOMAIN costs
    THEN IF ~costs[addr].hasCount
         THEN [file |-> f, raised |-> "assert", wrote |-> FALSE]
         ELSE IF ~t.hasCount
         THEN [file |-> f, raised |-> "keyerror", wrote |-> FALSE]
         ELSE IF t.count >= costs[addr].count
         THEN [file |-> JsonDump([costs EXCEPT ![addr] = t]),
               raised |-> "none", wrote |-> TRUE]
         ELSE [file |-> f, raised |-> "none", wrote |-> FALSE]
    ELSE [file |-> f, raised |-> "none", wrote |-> FALSE]

AppendGasTable_lt(f, addr, t) ==
    LET costs == ReadCosts(f) IN
    IF addr \in DOMAIN costs
    THEN IF ~costs[addr].hasCount
         THEN [file |-> f, raised |-> "assert", wrote |-> FALSE]
         ELSE IF ~t.hasCount
         THEN [file |-> f, raised |-> "keyerror", wrote |-> FALSE]
         ELSE IF t.count < costs[addr].count
         THEN [file |-> JsonDump([costs EXCEPT ![addr] = t]),
               raised |-> "none", wrote |-> TRUE]
         ELSE [file |-> f, raised |-> "none", wrote |-> FALSE]
    ELSE [file |-> f, raised |-> "none", wrote |-> FALSE]

AppendGasTable_only(f, addr, t) ==
    LET costs == ReadCosts(f) IN
    IF addr \in DOMAIN costs
    THEN IF ~costs[addr].hasCount
         THEN [file |-> f, raised |-> "assert", wrote |-> FALSE]
         ELSE IF ~t.hasCount
         THEN [file |-> f, raised |-> "keyerror", wrote |-> FALSE]
         ELSE IF t.count > costs[addr].count
         THEN [file |-> JsonDump([a \in {addr} |-> t]),
               raised |-> "none", wrote |-> TRUE]
         ELSE [file |-> f, raised |-> "none", wrote |-> FALSE]
    ELSE [file |-> f, raised |-> "none", wrote |-> FALSE]

AppendGasTable_countonly(f, addr, t) ==
    LET costs == ReadCosts(f) IN
    IF addr \in DOMAIN costs
    THEN IF ~costs[addr].hasCount
         THEN [file |-> f, raised |-> "assert", wrote |-> FALSE]
         ELSE IF ~t.hasCount
         THEN [file |-> f, raised |-> "keyerror", wrote |-> FALSE]
         ELSE IF t.count > costs[addr].count
         THEN [file |-> JsonDump([costs EXCEPT ![addr].count = t.count]),
               raised |-> "none", wrote |-> TRUE]
         ELSE [file |-> f, raised |-> "none", wrote |-> FALSE]
    ELSE [file |-> f, raised |-> "none", wrote |-> FALSE]

AppendGasTable_noassert(f, addr, t) ==
    LET costs == ReadCosts(f)
        stored == IF costs[addr].hasCount THEN costs[addr].count ELSE 0
    IN
    IF addr \in DOMAIN costs
    THEN IF ~t.hasCount
         THEN [file |-> f, raised |-> "keyerror", wrote |-> FALSE]
         ELSE IF t.count > stored
         THEN [file |-> JsonDump([costs EXCEPT ![addr] = t]),
               raised |-> "none", wrote |-> TRUE]
         ELSE [file |-> f, raised |-> "none", wrote |-> FALSE]
    ELSE [file |-> f, raised |-> "none", wrote |-> FALSE]

\* __append_gas_table_to_output_file with working I/O: the file afterwards,
\* the exception that escapes it, and whether it rewrote the file
AppendGasTable(f, addr, t) ==
    LET costs == ReadCosts(f) IN
    IF addr \in DOMAIN costs
    THEN IF ~costs[addr].hasCount
         THEN [file |-> f, raised |-> "assert", wrote |-> FALSE]
         ELSE IF ~t.hasCount
         THEN [file |-> f, raised |-> "keyerror", wrote |-> FALSE]
         ELSE IF t.count > costs[addr].count
         THEN [file |-> JsonDump([costs EXCEPT ![addr] = t]),
               raised |-> "none", wrote |-> TRUE]
         ELSE [file |-> f, raised |-> "none", wrote |-> FALSE]
    ELSE [file |-> f, raised |-> "none", wrote |-> FALSE]

\* ------------------------------------------------- registry listing -----
RECURSIVE GetPools(_)
\* __get_pools: the registry's pool_list in order, duplicates dropped
GetPools(reg) ==
    IF reg = <<>> THEN <<>>
    ELSE LET front == GetPools(SubSeq(reg, 1, Len(reg) - 1))
             pool == reg[Len(reg)]
         IN IF \E k \in 1..Len(front) : front[k] = pool
            THEN front
            ELSE Append(front, pool)

Range(s) == {s[k] : k \in 1..Len(s)}

RegistryLists == UNION {[1..n -> Addrs] : n \in 0..MaxRegLen}

\* list(set(pools)): each element once, in an order the caller cannot choose
ListOfSet(S) ==
    {s \in [1..Cardinality(S) -> S] : Range(s) = S}

\* lines 103-106: every list the scan can end up iterating, over all the
\* contents the two registries can have
ScanOrders ==
    UNION {ListOfSet(Range(GetPools(r1) \o GetPools(r2))) :
              r1 \in RegistryLists, r2 \in RegistryLists}

\* ----------------------------------------------------------- state ------
\* Each command is a process of its own.  mode says where that process is:
\*   "idle"   no command is running
\*   "loop"   stableswap-pools, at the for statement of line 109
\*   "body"   stableswap-pools, inside the loop body for pool_addr
\*   "single" stableswap-pool, inside the merge with the file open
\*   "done"   the command has returned or died; exit says which
VARIABLES
    file,               \* content of stableswap_pools_gas_estimates.json
    before,             \* content of the file when the current step began
    mode,
    pools,              \* the list iterated by the scan
    visited,            \* the pools whose loop body has run, in order
    pool_addr,          \* address being handled (0: none)
    decoded_gas_table,  \* table computed by the last step
    raised,             \* exception raised in the last step ("none" if none)
    mergeCalled,        \* the last step called __append_gas_table_to_output_file
    wrote,              \* the last step completed a rewrite of the file
    last,               \* which operation the last step belongs to
    exit,               \* "none", "running", "ok" or "error"
    wpc,                \* owner of a rewrite in progress: "idle", "scan", "single"
    w_costs,            \* the dict being dumped by that rewrite
    observed,           \* what a reader running beside a rewrite last read
    procs,              \* merges running side by side, each with its locals
    tracked,            \* the address whose merges are being recorded (0: none)
    seen,               \* the tables that address has seen, oldest first
    batch,              \* the transactions handed to the statistics reducer
    gasTable            \* the table the reducer made of them

vars == <<file, before, mode, pools, visited, pool_addr, decoded_gas_table,
          raised, mergeCalled, wrote, last, exit, wpc, w_costs, observed,
          procs, tracked, seen, batch, gasTable>>

writerVars == <<wpc, w_costs>>
readerVars == <<observed>>
auxVars == <<procs, tracked, seen, batch, gasTable>>

\* no side-by-side merges, no recording, nothing reduced yet
AuxIdle ==
    /\ procs = <<>>
    /\ tracked = 0
    /\ seen = <<>>
    /\ batch = <<>>
    /\ gasTable = <<>>
scanVars == <<pools, visited>>

Init ==
    /\ file \in InitialFiles
    /\ before = file
    /\ mode = "idle"
    /\ pools = <<>>
    /\ visited = <<>>
    /\ pool_addr = 0
    /\ decoded_gas_table = EmptyTable
    /\ raised = "none"
    /\ mergeCalled = FALSE
    /\ wrote = FALSE
    /\ last = "none"
    /\ exit = "none"
    /\ wpc = "idle"
    /\ w_costs = EmptyCosts
    /\ observed = NothingRead
    /\ AuxIdle

\* nothing computed, nothing raised, nothing saved in this step
NoResult ==
    /\ decoded_gas_table' = EmptyTable
    /\ raised' = "none"
    /\ mergeCalled' = FALSE
    /\ wrote' = FALSE

\* outcomes of the external gas-table computation: it raises, or returns
Fetches ==
    {[raised |-> "fetch", table |-> EmptyTable]} \cup
    {[raised |-> "none", table |-> t] : t \in ComputedTables}

\* the process ends; its locals are gone, the file stays
ProcessExit ==
    /\ mode = "done"
    /\ mode' = "idle"
    /\ pools' = <<>>
    /\ visited' = <<>>
    /\ pool_addr' = 0
    /\ before' = file
    /\ NoResult
    /\ last' = "none"
    /\ exit' = "none"
    /\ UNCHANGED <<file, writerVars, readerVars, auxVars>>

\* ------------------------------------------- stableswap-pools (scan) ----
\* lines 103-107: both registries are listed, the union is deduplicated
ScanStart ==
    /\ mode = "idle"
    /\ \E order \in ScanOrders : pools' = order
    /\ visited' = <<>>
    /\ mode' = "loop"
    /\ exit' = "running"
    /\ before' = file
    /\ NoResult
    /\ last' = "scanstart"
    /\ UNCHANGED <<file, pool_addr, writerVars, readerVars, auxVars>>

\* lines 33-36: a registry call raises; nothing catches it
RegistryFails ==
    /\ mode = "idle"
    /\ mode' = "done"
    /\ exit' = "error"
    /\ before' = file
    /\ decoded_gas_table' = EmptyTable
    /\ raised' = "registry"
    /\ mergeCalled' = FALSE
    /\ wrote' = FALSE
    /\ last' = "scanstart"
    /\ UNCHANGED <<file, scanVars, pool_addr, writerVars, readerVars, auxVars>>

\* line 109: the for statement binds the next pool, or the command returns
ScanLoop ==
    /\ mode = "loop"
    /\ IF Len(visited) < Len(pools)
       THEN /\ pool_addr' = pools[Len(visited) + 1]
            /\ mode' = "body"
            /\ exit' = "running"
       ELSE /\ pool_addr' = 0
            /\ mode' = "done"
            /\ exit' = "ok"
    /\ before' = file
    /\ NoResult
    /\ last' = "scanloop"
    /\ UNCHANGED <<file, scanVars, writerVars, readerVars, auxVars>>

\* line 111 raises: ape.Contract is outside the try, the command dies
ScanContractFails ==
    /\ mode = "body" /\ wpc = "idle"
    /\ mode' = "done"
    /\ exit' = "error"
    /\ before' = file
    /\ decoded_gas_table' = EmptyTable
    /\ raised' = "contract"
    /\ mergeCalled' = FALSE
    /\ wrote' = FALSE
    /\ last' = "scanpool"
    /\ UNCHANGED <<file, scanVars, pool_addr, writerVars, readerVars, auxVars>>

\* lines 113-128, the loop body: compute, save if non-empty, catch anything
ScanPool ==
    /\ mode = "body" /\ wpc = "idle"
    /\ \E fetch \in Fetches :
         /\ decoded_gas_table' = fetch.table
         /\ IF fetch.raised = "none" /\ ShouldSave(fetch.table)
            THEN LET r == AppendGasTable(file, pool_addr, fetch.table) IN
                 /\ file' = r.file
                 /\ raised' = r.raised
                 /\ wrote' = r.wrote
                 /\ mergeCalled' = TRUE
            ELSE /\ file' = file
                 /\ raised' = fetch.raised
                 /\ wrote' = FALSE
                 /\ mergeCalled' = FALSE
    /\ visited' = Append(visited, pool_addr)
    /\ mode' = "loop"
    /\ before' = file
    /\ last' = "scanpool"
    /\ UNCHANGED <<pools, pool_addr, exit, writerVars, readerVars, auxVars>>

\* ------------------------------------ stableswap-pool (block range) -----
RunSinglePool_swallow(p, fetch) ==
    /\ pool_addr' = p
    /\ decoded_gas_table' = fetch.table
    /\ IF fetch.raised = "none" /\ ShouldSave(fetch.table)
       THEN LET r == AppendGasTable(file, p, fetch.table) IN
            /\ file' = r.file
            /\ raised' = r.raised
            /\ wrote' = r.wrote
            /\ mergeCalled' = TRUE
       ELSE /\ file' = file
            /\ raised' = fetch.raised
            /\ wrote' = FALSE
            /\ mergeCalled' = FALSE
    /\ before' = file
    /\ mode' = "done"
    /\ exit' = "ok"
    /\ UNCHANGED <<scanVars, writerVars, readerVars>>

\* lines 145-156 for pool p: nothing is caught, an exception ends the command
RunSinglePool(p, fetch) ==
    /\ pool_addr' = p
    /\ decoded_gas_table' = fetch.table
    /\ IF fetch.raised = "none" /\ ShouldSave(fetch.table)
       THEN LET r == AppendGasTable(file, p, fetch.table) IN
            /\ file' = r.file
            /\ raised' = r.raised
            /\ wrote' = r.wrote
            /\ mergeCalled' = TRUE
       ELSE /\ file' = file
            /\ raised' = fetch.raised
            /\ wrote' = FALSE
            /\ mergeCalled' = FALSE
    /\ before' = file
    /\ mode' = "done"
    /\ exit' = IF raised' = "none" THEN "ok" ELSE "error"
    /\ UNCHANGED <<scanVars, writerVars, readerVars>>

SinglePool ==
    /\ mode = "idle"
    /\ \E p \in Addrs :
         \E fetch \in Fetches \cup {[raised |-> "contract", table |-> EmptyTable]} :
            RunSinglePool(p, fetch)
    /\ last' = "single"
    /\ UNCHANGED auxVars

\* the same command is run again straight away and the computation returns
\* the table it returned the first time
SinglePoolAgain ==
    /\ mode = "done"
    /\ last = "single"
    /\ mergeCalled
    /\ RunSinglePool(pool_addr, [raised |-> "none", table |-> decoded_gas_table])
    /\ last' = "again"
    /\ UNCHANGED auxVars

\* ------------------------------------ stableswap-pool-tx (read only) ----
TxQuery_saves ==
    /\ mode = "idle"
    /\ \E p \in Addrs, t \in ComputedTables \ {EmptyTable} :
         LET r == AppendGasTable(file, p, t) IN
         /\ pool_addr' = p
         /\ decoded_gas_table' = t
         /\ file' = r.file
         /\ raised' = r.raised
         /\ wrote' = r.wrote
         /\ exit' = IF r.raised = "none" THEN "ok" ELSE "error"
    /\ mode' = "done"
    /\ before' = file
    /\ mergeCalled' = TRUE
    /\ last' = "tx"
    /\ UNCHANGED <<scanVars, writerVars, readerVars, auxVars>>

\* lines 173-183: fetch the call tree, print it; may raise
TxQuery ==
    /\ mode = "idle"
    /\ \E p \in Addrs, err \in {"none", "contract", "fetch"} :
         /\ pool_addr' = p
         /\ raised' = err
         /\ exit' = IF err = "none" THEN "ok" ELSE "error"
    /\ mode' = "done"
    /\ before' = file
    /\ decoded_gas_table' = EmptyTable
    /\ mergeCalled' = FALSE
    /\ wrote' = FALSE
    /\ last' = "tx"
    /\ UNCHANGED <<file, scanVars, writerVars, readerVars, auxVars>>

Next ==
    \/ ScanStart
    \/ RegistryFails
    \/ ScanLoop
    \/ ScanContractFails
    \/ ScanPool
    \/ SinglePool
    \/ SinglePoolAgain
    \/ TxQuery
    \/ ProcessExit

Spec == Init /\ [][Next]_vars

\* ------------------------------------------- the rewrite, step by step --
\* The merge with its file operations able to fail.  `who` is the command
\* that called it.  Line 52 or line 67 may raise OSError before the file is
\* touched; open(..., "w") that succeeds has truncated the file to zero
\* bytes and json.dump then writes the document piece by piece.
SaveFaulty(p, t, who) ==
    LET r == AppendGasTable(file, p, t) IN
    /\ mergeCalled' = TRUE
    /\ wrote' = FALSE
    /\ \/ /\ ~r.wrote
          /\ file' = file
          /\ raised' = r.raised
          /\ UNCHANGED writerVars
       \/ /\ file.kind # "absent"
          /\ r.raised = "none"
          /\ file' = file
          /\ raised' = "persistence"
          /\ UNCHANGED writerVars
       \/ /\ r.wrote
          /\ file' = TruncatedFile
          /\ raised' = "none"
          /\ wpc' = who
          /\ w_costs' = ReadCosts(r.file)

\* lines 113-128 with a fallible file: the body ends in this step unless a
\* rewrite has been opened
ScanPoolF ==
    /\ mode = "body" /\ wpc = "idle"
    /\ \E fetch \in Fetches :
         /\ decoded_gas_table' = fetch.table
         /\ IF fetch.raised = "none" /\ ShouldSave(fetch.table)
            THEN SaveFaulty(pool_addr, fetch.table, "scan")
            ELSE /\ file' = file
                 /\ raised' = fetch.raised
                 /\ wrote' = FALSE
                 /\ mergeCalled' = FALSE
                 /\ UNCHANGED writerVars
    /\ IF wpc' = "idle"
       THEN visited' = Append(visited, pool_addr) /\ mode' = "loop"
       ELSE UNCHANGED <<visited, mode>>
    /\ before' = file
    /\ last' = "scanpool"
    /\ UNCHANGED <<pools, pool_addr, exit, readerVars, auxVars>>

\* lines 145-156 with a fallible file
SinglePoolF ==
    /\ mode = "idle"
    /\ \E p \in Addrs :
         /\ pool_addr' = p
         /\ \E fetch \in Fetches \cup {[raised |-> "contract", table |-> EmptyTable]} :
              /\ decoded_gas_table' = fetch.table
              /\ IF fetch.raised = "none" /\ ShouldSave(fetch.table)
                 THEN SaveFaulty(p, fetch.table, "single")
                 ELSE /\ file' = file
                      /\ raised' = fetch.raised
                      /\ wrote' = FALSE
                      /\ mergeCalled' = FALSE
                      /\ UNCHANGED writerVars
    /\ before' = file
    /\ last' = "single"
    /\ mode' = IF wpc' = "idle" THEN "done" ELSE "single"
    /\ exit' = IF wpc' # "idle" THEN "running"
               ELSE IF raised' = "none" THEN "ok" ELSE "error"
    /\ UNCHANGED <<scanVars, readerVars, auxVars>>

\* the command that owns the rewrite carries on after line 68, or sees the
\* exception: the scan catches it (line 124), stableswap-pool dies of it
AfterWrite ==
    IF wpc = "scan"
    THEN /\ visited' = Append(visited, pool_addr)
         /\ mode' = "loop"
         /\ exit' = exit
    ELSE /\ visited' = visited
         /\ mode' = "done"
         /\ exit' = IF raised' = "none" THEN "ok" ELSE "error"

\* line 68, part of the document has reached the file
WriteFlush ==
    /\ wpc # "idle"
    /\ file.kind = "empty"
    /\ file' = PartialFile
    /\ UNCHANGED <<before, mode, scanVars, pool_addr, decoded_gas_table, raised,
                   mergeCalled, wrote, last, exit, writerVars, readerVars, auxVars>>

\* line 68 and the close of the with block ran to the end
WriteCompletes ==
    /\ wpc # "idle"
    /\ file' = JsonDump(w_costs)
    /\ wrote' = TRUE
    /\ raised' = "none"
    /\ wpc' = "idle"
    /\ AfterWrite
    /\ UNCHANGED <<before, pools, pool_addr, decoded_gas_table, mergeCalled,
                   last, w_costs, readerVars, auxVars>>

\* json.dump raises (or the process is cut off) with the file as it is
WriteFails ==
    /\ wpc # "idle"
    /\ raised' = "persistence"
    /\ wpc' = "idle"
    /\ AfterWrite
    /\ UNCHANGED <<file, before, pools, pool_addr, decoded_gas_table,
                   mergeCalled, wrote, last, w_costs, readerVars, auxVars>>

\* another process opens and reads the file while the rewrite is under way
ReaderReads ==
    /\ wpc # "idle"
    /\ observed' = file
    /\ UNCHANGED <<file, before, mode, scanVars, pool_addr, decoded_gas_table,
                   raised, mergeCalled, wrote, last, exit, writerVars, auxVars>>

NextFault ==
    \/ ScanStart
    \/ RegistryFails
    \/ ScanLoop
    \/ ScanContractFails
    \/ ScanPoolF
    \/ SinglePoolF
    \/ TxQuery
    \/ ProcessExit
    \/ WriteFlush
    \/ WriteCompletes
    \/ WriteFails
    \/ ReaderReads

SpecFault == Init /\ [][NextFault]_vars

\* --------------------------------------------- merges side by side ------
\* Several commands run at the same time (two shells, a scan next to a
\* stableswap-pool); each is inside __append_gas_table_to_output_file with
\* its own locals.  The function takes no lock, so its three file
\* operations -- read (52-54), truncating open (67), dump (68) -- interleave
\* freely.  SpecConc lets a dump that completes define the whole content of
\* the file, which is the mildest outcome of two overlapping writers.

\* a table a new computation can bring: its count may exceed every stored one
FreshTables ==
    {[hasCount |-> TRUE, count |-> c, body |-> b] :
        c \in 1..(MaxCount + 1), b \in 1..MaxBody}

Procs == 1..NumProcs

InitConc ==
    /\ file \in InitialFiles
    /\ before = file
    /\ mode = "idle"
    /\ pools = <<>>
    /\ visited = <<>>
    /\ pool_addr = 0
    /\ decoded_gas_table = EmptyTable
    /\ raised = "none"
    /\ mergeCalled = FALSE
    /\ wrote = FALSE
    /\ last = "none"
    /\ exit = "none"
    /\ wpc = "idle"
    /\ w_costs = EmptyCosts
    /\ observed = NothingRead
    /\ procs \in [Procs -> {[pc |-> "start", addr |-> a, table |-> t,
                              costs |-> EmptyCosts, raised |-> "none"] :
                                a \in Addrs, t \in FreshTables}]
    /\ tracked = 0
    /\ seen = <<>>
    /\ batch = <<>>
    /\ gasTable = <<>>

concFrame == <<before, mode, scanVars, pool_addr, decoded_gas_table, raised,
               mergeCalled, wrote, last, exit, writerVars, readerVars,
               tracked, seen, batch, gasTable>>

\* lines 48-56 in process i: costs is what the file holds at this moment
MergeRead(i) ==
    /\ procs[i].pc = "start"
    /\ procs' = [procs EXCEPT ![i].pc = "read", ![i].costs = ReadCosts(file)]
    /\ UNCHANGED <<file, concFrame>>

\* lines 61-67 in process i, on the costs it read: assert, compare, and on
\* a larger count put the table into costs and open the file for writing
MergeDecide(i) ==
    /\ procs[i].pc = "read"
    /\ LET r == AppendGasTable(JsonDump(procs[i].costs), procs[i].addr,
                               procs[i].table)
       IN IF r.wrote
          THEN /\ procs' = [procs EXCEPT ![i].pc = "open",
                                         ![i].costs = ReadCosts(r.file)]
               /\ file' = TruncatedFile
          ELSE /\ procs' = [procs EXCEPT ![i].pc = "done",
                                         ![i].raised = r.raised]
               /\ file' = file
    /\ UNCHANGED concFrame

\* line 68 in process i: its costs become the content of the file
MergeDump(i) ==
    /\ procs[i].pc = "open"
    /\ file' = JsonDump(procs[i].costs)
    /\ procs' = [procs EXCEPT ![i].pc = "done"]
    /\ UNCHANGED concFrame

NextConc ==
    \E i \in Procs :
        \/ MergeRead(i)
        \/ MergeDecide(i)
        \/ MergeDump(i)

SpecConc == InitConc /\ [][NextConc]_vars

\* every side-by-side merge has returned
AllDone == procs # <<>> /\ \A i \in Procs : procs[i].pc = "done"

\* the file process i's merge leaves when it runs alone on the start content
Alone(i) == AppendGasTable(before, procs[i].addr, procs[i].table).file

\* ------------------------------------- a run of merges for one address --
\* stableswap-pool is run again and again for one pool; seen keeps what that
\* address had at the start (EmptyTable: nothing) and every table handed to
\* the merge since.

\* the cache files SpecSeq starts from: anything for the recorded address,
\* any other address absent or holding one fixed table
SeqFiles(a) ==
    {f \in InitialFiles :
        \A b \in DOMAIN ReadCosts(f) \ {a} :
            ReadCosts(f)[b] = [hasCount |-> TRUE, count |-> 1, body |-> 1]}

InitSeq ==
    /\ tracked \in Addrs
    /\ file \in SeqFiles(tracked)
    /\ before = file
    /\ mode = "idle"
    /\ pools = <<>>
    /\ visited = <<>>
    /\ pool_addr = 0
    /\ decoded_gas_table = EmptyTable
    /\ raised = "none"
    /\ mergeCalled = FALSE
    /\ wrote = FALSE
    /\ last = "none"
    /\ exit = "none"
    /\ wpc = "idle"
    /\ w_costs = EmptyCosts
    /\ observed = NothingRead
    /\ procs = <<>>
    /\ seen = <<Entry(file, tracked)>>
    /\ batch = <<>>
    /\ gasTable = <<>>

\* lines 145-156 for the recorded address; a table that reaches the merge
\* is added to the record
SinglePoolSeq ==
    /\ mode = "idle"
    /\ Len(seen) <= MaxMerges
    /\ \E fetch \in Fetches : RunSinglePool(tracked, fetch)
    /\ last' = "single"
    /\ seen' = IF mergeCalled' THEN Append(seen, decoded_gas_table') ELSE seen
    /\ UNCHANGED <<procs, tracked, batch, gasTable>>

NextSeq ==
    \/ SinglePoolSeq
    \/ ProcessExit

SpecSeq == InitSeq /\ [][NextSeq]_vars

\* the largest "count" among the tables of a record
MaxSeenCount(s) ==
    CHOOSE c \in {s[k].count : k \in 1..Len(s)} :
        \A k \in 1..Len(s) : s[k].count <= c

\* the earliest table of a record that has the largest count
FirstMax(s) ==
    LET k == CHOOSE i \in 1..Len(s) :
                 /\ s[i].count = MaxSeenCount(s)
                 /\ \A j \in 1..(i - 1) : s[j].count < MaxSeenCount(s)
    IN s[k]

\* -------------------------------------------- the statistics reducer ----
\* The reducer lives in scripts/stableswap_pool_gas_calculator.py and
\* scripts/get_calltrace_from_tx.py, which are imported at lines 11-18 and
\* called at lines 115 and 147.  It is modelled from its contract: one
\* sample per attributable call, per method the mean and the number of its
\* samples, per table the number of transactions that contributed.

Methods == 1..NumMethods

\* a transaction, as the attributor sees it: the methods of the measured
\* contract it called, in call order (the same method may come again)
Transactions == UNION {[1..n -> Methods] : n \in 0..MaxCalls}

Batches == UNION {[1..n -> Transactions] : n \in 0..MaxTxs}

\* gas reported for the k-th attributable call of a transaction
GasUsed(m, k) == 10 * m + k

RECURSIVE SumGas(_, _, _)
\* total gas of the samples for method m among the first k calls of tx
SumGas(tx, m, k) ==
    IF k = 0 THEN 0
    ELSE SumGas(tx, m, k - 1) + (IF tx[k] = m THEN GasUsed(m, k) ELSE 0)

\* number of samples transaction tx gives for method m: one per call
CallsIn(tx, m) == Cardinality({k \in 1..Len(tx) : tx[k] = m})

RECURSIVE SampleCount(_, _, _)
\* number of samples for method m in the first n transactions of batch b
SampleCount(b, m, n) ==
    IF n = 0 THEN 0 ELSE SampleCount(b, m, n - 1) + CallsIn(b[n], m)

RECURSIVE SampleSum(_, _, _)
\* their total gas
SampleSum(b, m, n) ==
    IF n = 0 THEN 0 ELSE SampleSum(b, m, n - 1) + SumGas(b[n], m, Len(b[n]))

\* number of samples of the batch, all methods together
TotalSamples(b) ==
    LET RECURSIVE Tot(_)
        Tot(n) == IF n = 0 THEN 0 ELSE Tot(n - 1) + Len(b[n])
    IN Tot(Len(b))

\* transactions of the batch that contributed at least one sample
Contributing(b) == Cardinality({n \in 1..Len(b) : Len(b[n]) > 0})

ReducedMethods_all(b) == Methods

\* the methods that get an entry: those with at least one sample
ReducedMethods(b) == {m \in Methods : SampleCount(b, m, Len(b)) > 0}

\* the gas table of a batch; avg_gas is the mean rounded down
Reduce(b) ==
    [hasCount |-> ReducedMethods(b) # {},
     count |-> Contributing(b),
     methods |-> [m \in ReducedMethods(b) |->
                    [avg_gas |-> IF SampleCount(b, m, Len(b)) = 0 THEN 0
                                 ELSE SampleSum(b, m, Len(b)) \div SampleCount(b, m, Len(b)),
                     count |-> SampleCount(b, m, Len(b))]]]

InitReduce ==
    /\ file = AbsentFile
    /\ before = file
    /\ mode = "idle"
    /\ pools = <<>>
    /\ visited = <<>>
    /\ pool_addr = 0
    /\ decoded_gas_table = EmptyTable
    /\ raised = "none"
    /\ mergeCalled = FALSE
    /\ wrote = FALSE
    /\ last = "none"
    /\ exit = "none"
    /\ wpc = "idle"
    /\ w_costs = EmptyCosts
    /\ observed = NothingRead
    /\ procs = <<>>
    /\ tracked = 0
    /\ seen = <<>>
    /\ batch \in Batches
    /\ gasTable = <<>>

\* the batch is reduced to its gas table
ReduceBatch ==
    /\ last = "none"
    /\ gasTable' = Reduce(batch)
    /\ last' = "reduce"
    /\ UNCHANGED <<file, before, mode, scanVars, pool_addr, decoded_gas_table,
                   raised, mergeCalled, wrote, exit, writerVars, readerVars,
                   procs, tracked, seen, batch>>

SpecReduce == InitReduce /\ [][ReduceBatch]_vars

\* some transaction of the batch calls method m more than once
CalledTwiceInOneTx(b, m) == \E n \in 1..Len(b) : CallsIn(b[n], m) > 1

\* ------------------------------------------------------------ claims ----
\* the last step ran the merge to its end
Merged == mergeCalled /\ wpc = "idle"

\* the last step got a table back from the computation
Computed == last \in {"scanpool", "single"} /\ raised \notin {"fetch", "contract"}

\* C1: when the store already holds an entry with count c1 for the address
\* and a table with count c2 is merged, the entry becomes the new table iff
\* c2 > c1; otherwise the file is exactly what it was and is not rewritten.
C1_ReplacedIffGreater ==
    (Merged /\ Entry(before, pool_addr).hasCount)
        => IF decoded_gas_table.count > Entry(before, pool_addr).count
           THEN wrote /\ Entry(file, pool_addr) = decoded_gas_table
           ELSE ~wrote /\ file = before

\* a tie: same count, different contents, the stored table stayed
C1_Witness ==
    /\ Merged
    /\ Entry(before, pool_addr).hasCount
    /\ decoded_gas_table.count = Entry(before, pool_addr).count
    /\ decoded_gas_table # Entry(before, pool_addr)
    /\ Entry(file, pool_addr) = Entry(before, pool_addr)

\* C2: a merge of a non-empty table for an address the store has no entry
\* for leaves the store mapping the address to that table.
C2_CreatesEntry ==
    (Merged /\ raised = "none" /\ Truthy(decoded_gas_table)
            /\ pool_addr \notin DOMAIN ReadCosts(before))
        => Entry(file, pool_addr) = decoded_gas_table

\* C3: in every step, every address that has an entry keeps one, and the
\* count of its entry does not go down.
C3_CountNeverDecreases ==
    [][\A a \in DOMAIN ReadCosts(file) :
          /\ a \in DOMAIN ReadCosts(file')
          /\ IF ReadCosts(file)[a].hasCount
             THEN /\ ReadCosts(file')[a].hasCount
                  /\ ReadCosts(file')[a].count >= ReadCosts(file)[a].count
             ELSE ReadCosts(file')[a] = ReadCosts(file)[a]]_vars

\* a table with a lower count was offered and turned down
C3_Witness ==
    /\ Merged
    /\ Entry(before, pool_addr).hasCount
    /\ decoded_gas_table.count < Entry(before, pool_addr).count
    /\ Entry(file, pool_addr) = Entry(before, pool_addr)

\* C4: a run of either writing command whose computation returns the empty
\* table does not call the merge and leaves the file as it was; no entry
\* with count 0 is ever in the store.
C4_EmptyTableNeverMerged ==
    /\ (Computed /\ ~Truthy(decoded_gas_table)) => (~mergeCalled /\ file = before)
    /\ \A a \in DOMAIN ReadCosts(file) :
          ~(ReadCosts(file)[a].hasCount /\ ReadCosts(file)[a].count = 0)

\* the scan got an empty table for a pool that has an entry
C4_Witness ==
    /\ last = "scanpool"
    /\ raised = "none"
    /\ decoded_gas_table = EmptyTable
    /\ pool_addr \in DOMAIN ReadCosts(file)

\* C5: a merge that directly follows a merge of the same table for the same
\* address changes nothing and does not rewrite the file.
C5_SecondMergeNoOp ==
    (last = "again" /\ Merged) => (file = before /\ ~wrote)

\* the first merge stored the table, the second one found it there
C5_Witness ==
    /\ last = "again"
    /\ Merged
    /\ raised = "none"
    /\ Entry(file, pool_addr) = decoded_gas_table

\* C6: a merge of a non-empty table for address A into a file that does not
\* parse ends without error and leaves a file holding only A's new entry.
C6_CorruptCacheRecovers ==
    (Merged /\ before.kind \in {"garbage", "empty", "partial"})
        => /\ raised = "none"
           /\ file = JsonDump([a \in {pool_addr} |-> decoded_gas_table])

\* C7: when the rewrite of a replacing merge fails, the file holds what it
\* held before the merge began.
C7_FailedWriteKeepsPrior ==
    (Merged /\ raised = "persistence") => file = before

\* C8: whatever a reader reads while a replacing merge is writing is the
\* complete content from before the merge or the complete new content.
C8_ReaderSeesWholeFile ==
    [][(observed' # observed) => observed' \in {before, JsonDump(w_costs)}]_vars

\* C9: in the scan, an error raised by the computation or by the merge for
\* a pool does not end the command, the loop moves past that pool, the
\* pool's entry is what it was, and a scan that returns has been through
\* every pool exactly once.
C9_ScanSurvivesPoolError ==
    /\ (/\ last = "scanpool"
        /\ wpc = "idle"
        /\ raised \in {"fetch", "assert", "keyerror", "persistence"})
          => /\ mode = "loop"
             /\ exit = "running"
             /\ visited # <<>>
             /\ visited[Len(visited)] = pool_addr
             /\ Entry(file, pool_addr) = Entry(before, pool_addr)
    /\ (last = "scanloop" /\ mode = "done") => (exit = "ok" /\ visited = pools)

\* C10: after a merge for an address, every other address has the entry it
\* had before (or still none).
C10_OtherEntriesUntouched ==
    Merged => \A b \in Addrs \ {pool_addr} : Entry(file, b) = Entry(before, b)

\* the file was rewritten while it held an entry for another address
C10_Witness ==
    /\ Merged
    /\ wrote
    /\ \E b \in Addrs \ {pool_addr} : b \in DOMAIN ReadCosts(before)

\* C13: the stableswap-pool-tx command leaves the cache file exactly as it
\* found it and never calls the merge, whatever the transaction and address.
C13_TxModeReadOnly ==
    last = "tx" => (file = before /\ ~mergeCalled /\ ~wrote)

\* the command ran to its end for a pool that has an entry in the cache
C13_Witness ==
    /\ last = "tx"
    /\ exit = "ok"
    /\ pool_addr \in DOMAIN ReadCosts(file)

\* C14: in stableswap-pool an error from building the contract or computing
\* the table ends the command with a failure, the merge is not reached and
\* the cache file is what it was.
C14_SingleModeErrorIsTerminal ==
    (last = "single" /\ raised \in {"fetch", "contract"})
        => /\ mode = "done"
           /\ exit = "error"
           /\ ~mergeCalled
           /\ file = before

\* the computation failed for a pool that has an entry in the cache
C14_Witness ==
    /\ last = "single"
    /\ raised = "fetch"
    /\ pool_addr \in DOMAIN ReadCosts(file)

\* every entry of the parsed file has the key "count"
AllHaveCount(f) == \A a \in DOMAIN ReadCosts(f) : ReadCosts(f)[a].hasCount

\* C17: from a store whose entries all have "count" every step leads to a
\* store whose entries all have "count" and does not trip the assertion;
\* and a merge that meets an entry without "count" raises AssertionError
\* without writing, the file staying as it was.
C17_AssertIsInvariant ==
    /\ [][AllHaveCount(file) => (AllHaveCount(file') /\ raised' # "assert")]_vars
    /\ [](  (Merged /\ pool_addr \in DOMAIN ReadCosts(before)
                    /\ ~Entry(before, pool_addr).hasCount)
              => (raised = "assert" /\ ~wrote /\ file = before))

\* the assertion failed on an entry without "count"
C17_Witness ==
    /\ Merged
    /\ raised = "assert"
    /\ ~Entry(before, pool_addr).hasCount

\* C11: when merges for pairwise different addresses have run side by side,
\* in whatever order their steps fell, each address holds the entry its
\* merge leaves when run alone.
C11_DifferentAddressesIndependent ==
    (AllDone /\ \A i, j \in Procs : i # j => procs[i].addr # procs[j].addr)
        => \A i \in Procs :
              Entry(file, procs[i].addr) = Entry(Alone(i), procs[i].addr)

\* C12: when merges for one address have run side by side, the address
\* holds a count no lower than the one it started with and no lower than
\* the count of any table that was offered.
C12_SameAddressNoLostUpdate ==
    (/\ AllDone
     /\ \A i \in Procs : procs[i].addr = procs[1].addr
     /\ Entry(before, procs[1].addr).hasCount)
        => /\ Entry(file, procs[1].addr).hasCount
           /\ Entry(file, procs[1].addr).count >= Entry(before, procs[1].addr).count
           /\ \A i \in Procs :
                 Entry(file, procs[1].addr).count >= procs[i].table.count

\* C16: for an address that started with an entry (one that has a count),
\* after any run of merges the stored table is, as a whole, the earliest of
\* the tables seen -- the starting entry, then each merged table -- whose
\* count is the largest of all the counts seen.
C16_FirstMaximumWins ==
    (tracked # 0 /\ seen[1].hasCount)
        => Entry(file, tracked) = FirstMax(seen)

\* a merged table beat the starting entry and then kept its place against a
\* different table with the same count
C16_Witness ==
    /\ tracked # 0
    /\ Len(seen) = 3
    /\ seen[1].hasCount
    /\ seen[2].count > seen[1].count
    /\ seen[3].count = seen[2].count
    /\ seen[3] # seen[2]
    /\ Entry(file, tracked) = seen[2]

====
